---- MODULE Spec2Model ----
(***************************************************************************)
(* Bill-of-Quantities builder (Office Scripts).                            *)
(*                                                                         *)
(* Item codes are modelled as the strings they are: sequences of           *)
(* one-character strings, e.g. "A-1" is <<"A", "-", "1">>.  split, join,   *)
(* startsWith, Number and String are computed on those characters.         *)
(***************************************************************************)
EXTENDS Integers, Sequences, FiniteSets, TLC

VARIABLES
    sheet,      \* the worksheet: row number -> cells of columns B, C, G, H, I, J
    pre,        \* the worksheet as it was when the last script started
    op,         \* the last script run: its name, its inputs and how it ended
    steps,      \* how many scripts have run
    input,      \* the pending call of a helper function: its name and argument
    ret         \* what that call returned (or threw)

vars == <<sheet, pre, op, steps, input, ret>>

-----------------------------------------------------------------------------
(* Bounds of the model *)

MaxDataRows == 3     \* data rows of the table the user starts from
MaxChildren == 2     \* the largest number of children asked for (cell M2)
MaxSteps    == 2     \* scripts run one after the other
MaxListLen == 3      \* length of the code lists handed to the helpers
MaxTableLen == 5     \* rows of the tables a row is deleted from before
                     \* the codes are handed to reindexItemCodes
MaxCodeLen == 4      \* length, in characters, of the codes handed to
                     \* incrementLastItemCodeSegment

-----------------------------------------------------------------------------
(* JavaScript strings *)

Hyphen == "-"

DigitChars == <<"0", "1", "2", "3", "4", "5", "6", "7", "8", "9">>

IsDigit(c) == \E d \in 1..10 : DigitChars[d] = c

DigitValue(c) == (CHOOSE d \in 1..10 : DigitChars[d] = c) - 1

\* s.startsWith(p)
StartsWith(s, p) == Len(p) <= Len(s) /\ SubSeq(s, 1, Len(p)) = p

\* s.split("-"): the pieces between the hyphens; "" splits into [""].
RECURSIVE Split(_)
Split(s) ==
    IF \A i \in 1..Len(s) : s[i] # Hyphen
    THEN <<s>>
    ELSE LET k == CHOOSE i \in 1..Len(s) :
                      s[i] = Hyphen /\ \A j \in 1..(i - 1) : s[j] # Hyphen
         IN  <<SubSeq(s, 1, k - 1)>> \o Split(SubSeq(s, k + 1, Len(s)))

\* segments.join("-")
RECURSIVE Join(_)
Join(segments) ==
    IF segments = <<>> THEN <<>>
    ELSE IF Len(segments) = 1 THEN segments[1]
    ELSE segments[1] \o <<Hyphen>> \o Join(Tail(segments))

RECURSIVE DecimalValue(_)
DecimalValue(s) ==
    IF s = <<>> THEN 0
    ELSE 10 * DecimalValue(SubSeq(s, 1, Len(s) - 1)) + DigitValue(s[Len(s)])

\* Number(s) for a string of letters, digits: the empty string is 0, a run of
\* digits is its decimal value (leading zeros allowed), anything else is NaN.
\* (The model's strings hold no white space, sign, point or exponent.)
Number(s) ==
    IF \A i \in 1..Len(s) : IsDigit(s[i])
    THEN [isNaN |-> FALSE, value |-> DecimalValue(s)]
    ELSE [isNaN |-> TRUE, value |-> 0]

\* String(n) for an integer n >= 0: its decimal numeral.
RECURSIVE NumberToString(_)
NumberToString(n) ==
    IF n < 10 THEN <<DigitChars[n + 1]>>
    ELSE NumberToString(n \div 10) \o <<DigitChars[(n % 10) + 1]>>

\* (itemCode.match(/-/g) || []).length
hierarchyLevelOf(itemCode) ==
    Cardinality({i \in 1..Len(itemCode) : itemCode[i] = Hyphen})

-----------------------------------------------------------------------------
(* How a call ends *)

Returned(v) == [threw |-> FALSE, error |-> "", value |-> v]
Threw(e)    == [threw |-> TRUE, error |-> e, value |-> <<>>]

-----------------------------------------------------------------------------
(* incrementLastItemCodeSegment *)

\* A variant that adds 1 to the text of the segment, not to its number:
\* "9" + 1 is "91".
IncrementedCodeByConcatenation(segments, lastSegment) ==
    IF lastSegment.isNaN
    THEN Threw("Invalid numeric segment in code")
    ELSE Returned(Join([segments EXCEPT
             ![Len(segments)] = segments[Len(segments)] \o <<"1">>]))

\* The throw, or the segments with the last one replaced and joined again.
IncrementedCode(segments, lastSegment) ==
    IF lastSegment.isNaN
    THEN Threw("Invalid numeric segment in code")
    ELSE Returned(Join([segments EXCEPT
             ![Len(segments)] = NumberToString(lastSegment.value + 1)]))

IncrementSegments(segments) ==
    IncrementedCode(segments, Number(segments[Len(segments)]))

incrementLastItemCodeSegment(itemCode) == IncrementSegments(Split(itemCode))

-----------------------------------------------------------------------------
(* reindexItemCodes *)

\* A slot of a JavaScript array that was never assigned.
EmptySlot == [defined |-> FALSE, text |-> <<>>]
Slot(s)   == [defined |-> TRUE, text |-> s]

\* `${x}`: an unassigned slot prints as "undefined".
TemplateText(x) ==
    IF x.defined THEN x.text
    ELSE <<"u", "n", "d", "e", "f", "i", "n", "e", "d">>

\* What Array.prototype.join prints for an element: an unassigned slot is "".
JoinText(x) == IF x.defined THEN x.text ELSE <<>>

\* array.length = n: truncates, or extends with unassigned slots.
SetLength(array, n, empty) ==
    [k \in 1..n |-> IF k <= Len(array) THEN array[k] ELSE empty]

\* array[index] = v (index counted from 0), extending the array if needed.
SetAt(array, index, v, empty) ==
    [k \in 1..(IF index + 1 > Len(array) THEN index + 1 ELSE Len(array)) |->
        IF k = index + 1 THEN v
        ELSE IF k <= Len(array) THEN array[k] ELSE empty]

\* A variant of the iteration that never truncates levelCounters, so the
\* numbering of a level continues under the next parent.
ReindexStepKeepingCounters(st, code) ==
    LET parts  == Split(code)
        level  == Len(parts) - 1
        stack0 == SetLength(st.pathStack, level, EmptySlot)
        count0 == SetLength(st.levelCounters,
                            IF Len(st.levelCounters) > level + 1
                            THEN Len(st.levelCounters) ELSE level + 1, 0)
        count1 == IF level = 0
                  THEN SetAt(count0, 0, 0, 0)
                  ELSE SetAt(count0, level, count0[level + 1] + 1, 0)
        stack1 == IF level = 0
                  THEN SetAt(stack0, 0, Slot(parts[1]), EmptySlot)
                  ELSE SetAt(stack0, level,
                             Slot(NumberToString(count1[level + 1])), EmptySlot)
        newCode == IF level = 0
                   THEN stack1[1].text
                   ELSE TemplateText(stack1[1]) \o <<Hyphen>> \o
                        Join([k \in 1..level |-> JoinText(stack1[k + 1])])
    IN  [pathStack     |-> stack1,
         levelCounters |-> count1,
         reindexed     |-> Append(st.reindexed, newCode)]

\* A variant of the iteration that truncates levelCounters one level too
\* far, so every row is numbered 1 under its parent.
ReindexStepResettingCounter(st, code) ==
    LET parts  == Split(code)
        level  == Len(parts) - 1
        stack0 == SetLength(st.pathStack, level, EmptySlot)
        count0 == SetLength(SetLength(st.levelCounters, level, 0), level + 1, 0)
        count1 == IF level = 0
                  THEN SetAt(count0, 0, 0, 0)
                  ELSE SetAt(count0, level, count0[level + 1] + 1, 0)
        stack1 == IF level = 0
                  THEN SetAt(stack0, 0, Slot(parts[1]), EmptySlot)
                  ELSE SetAt(stack0, level,
                             Slot(NumberToString(count1[level + 1])), EmptySlot)
        newCode == IF level = 0
                   THEN stack1[1].text
                   ELSE TemplateText(stack1[1]) \o <<Hyphen>> \o
                        Join([k \in 1..level |-> JoinText(stack1[k + 1])])
    IN  [pathStack     |-> stack1,
         levelCounters |-> count1,
         reindexed     |-> Append(st.reindexed, newCode)]

\* A variant of the iteration that never truncates pathStack and joins all
\* of it, so a row after a deeper one keeps the deeper row's tail.
ReindexStepKeepingPath(st, code) ==
    LET parts  == Split(code)
        level  == Len(parts) - 1
        stack0 == st.pathStack
        count0 == SetLength(st.levelCounters, level + 1, 0)
        count1 == IF level = 0
                  THEN SetAt(count0, 0, 0, 0)
                  ELSE SetAt(count0, level, count0[level + 1] + 1, 0)
        stack1 == IF level = 0
                  THEN SetAt(stack0, 0, Slot(parts[1]), EmptySlot)
                  ELSE SetAt(stack0, level,
                             Slot(NumberToString(count1[level + 1])), EmptySlot)
        newCode == IF level = 0
                   THEN stack1[1].text
                   ELSE TemplateText(stack1[1]) \o <<Hyphen>> \o
                        Join([k \in 1..(Len(stack1) - 1) |-> JoinText(stack1[k + 1])])
    IN  [pathStack     |-> stack1,
         levelCounters |-> count1,
         reindexed     |-> Append(st.reindexed, newCode)]

\* A variant of the iteration that stores the counter in the path before
\* incrementing it, so siblings are numbered 0, 1, 2, ...
ReindexStepCountingFromZero(st, code) ==
    LET parts  == Split(code)
        level  == Len(parts) - 1
        stack0 == SetLength(st.pathStack, level, EmptySlot)
        count0 == SetLength(st.levelCounters, level + 1, 0)
        count1 == IF level = 0
                  THEN SetAt(count0, 0, 0, 0)
                  ELSE SetAt(count0, level, count0[level + 1] + 1, 0)
        stack1 == IF level = 0
                  THEN SetAt(stack0, 0, Slot(parts[1]), EmptySlot)
                  ELSE SetAt(stack0, level,
                             Slot(NumberToString(count0[level + 1])), EmptySlot)
        newCode == IF level = 0
                   THEN stack1[1].text
                   ELSE TemplateText(stack1[1]) \o <<Hyphen>> \o
                        Join([k \in 1..level |-> JoinText(stack1[k + 1])])
    IN  [pathStack     |-> stack1,
         levelCounters |-> count1,
         reindexed     |-> Append(st.reindexed, newCode)]

\* A variant of the iteration that starts from an empty pathStack every
\* time, as if the array were declared inside the loop.
ReindexStepForgettingPath(st, code) ==
    LET parts  == Split(code)
        level  == Len(parts) - 1
        stack0 == SetLength(<<>>, level, EmptySlot)
        count0 == SetLength(st.levelCounters, level + 1, 0)
        count1 == IF level = 0
                  THEN SetAt(count0, 0, 0, 0)
                  ELSE SetAt(count0, level, count0[level + 1] + 1, 0)
        stack1 == IF level = 0
                  THEN SetAt(stack0, 0, Slot(parts[1]), EmptySlot)
                  ELSE SetAt(stack0, level,
                             Slot(NumberToString(count1[level + 1])), EmptySlot)
        newCode == IF level = 0
                   THEN stack1[1].text
                   ELSE TemplateText(stack1[1]) \o <<Hyphen>> \o
                        Join([k \in 1..level |-> JoinText(stack1[k + 1])])
    IN  [pathStack     |-> stack1,
         levelCounters |-> count1,
         reindexed     |-> Append(st.reindexed, newCode)]

\* One iteration of the loop (steps 04a-04g).  levelCounters holds 0 where
\* the script's array holds 0 or nothing: `levelCounters[level] || 0`.
ReindexStep(st, code) ==
    LET parts  == Split(code)
        level  == Len(parts) - 1
        stack0 == SetLength(st.pathStack, level, EmptySlot)
        count0 == SetLength(st.levelCounters, level + 1, 0)
        count1 == IF level = 0
                  THEN SetAt(count0, 0, 0, 0)
                  ELSE SetAt(count0, level, count0[level + 1] + 1, 0)
        stack1 == IF level = 0
                  THEN SetAt(stack0, 0, Slot(parts[1]), EmptySlot)
                  ELSE SetAt(stack0, level,
                             Slot(NumberToString(count1[level + 1])), EmptySlot)
        newCode == IF level = 0
                   THEN stack1[1].text
                   ELSE TemplateText(stack1[1]) \o <<Hyphen>> \o
                        Join([k \in 1..level |-> JoinText(stack1[k + 1])])
    IN  [pathStack     |-> stack1,
         levelCounters |-> count1,
         reindexed     |-> Append(st.reindexed, newCode)]

RECURSIVE ReindexLoop(_, _, _)
ReindexLoop(itemCodes, i, st) ==
    IF i > Len(itemCodes) THEN st
    ELSE ReindexLoop(itemCodes, i + 1, ReindexStep(st, itemCodes[i]))

reindexItemCodes(itemCodes) ==
    ReindexLoop(itemCodes, 1,
                [pathStack |-> <<>>, levelCounters |-> <<>>,
                 reindexed |-> <<>>]).reindexed

-----------------------------------------------------------------------------
(* Tree inference: the hasChild loop of transformTableToActivityObjects and *)
(* of updateActivityRowFormulas, over the item codes of the data rows.      *)

\* A variant that tests the prefix only, not the level.
markHasChildByPrefix(itemCodes) ==
    [i \in 1..Len(itemCodes) |->
        /\ i < Len(itemCodes)
        /\ StartsWith(itemCodes[i + 1], itemCodes[i] \o <<Hyphen>>)]

\* A variant whose loop stops one row early.
markHasChildStoppingEarly(itemCodes) ==
    [i \in 1..Len(itemCodes) |->
        /\ i < Len(itemCodes) - 1
        /\ StartsWith(itemCodes[i + 1], itemCodes[i] \o <<Hyphen>>)
        /\ hierarchyLevelOf(itemCodes[i + 1]) = hierarchyLevelOf(itemCodes[i]) + 1]

markHasChild(itemCodes) ==
    [i \in 1..Len(itemCodes) |->
        /\ i < Len(itemCodes)
        /\ StartsWith(itemCodes[i + 1], itemCodes[i] \o <<Hyphen>>)
        /\ hierarchyLevelOf(itemCodes[i + 1]) = hierarchyLevelOf(itemCodes[i]) + 1]

-----------------------------------------------------------------------------
(* The worksheet (the Grid).  A row holds the cells the scripts use: column *)
(* B (item code), C (name), G (quantity), H (unit), I (rate), J (cost).     *)
(* A cell of G..J is a sequence of tokens: <<>> is the blank cell "", one   *)
(* text token is a literal (a number is written as its numeral), several    *)
(* tokens are a formula; a reference to a cell is a token of its own, so    *)
(* that inserting and deleting rows can shift it as Excel does.             *)

Text(s)       == [kind |-> "text", text |-> s, col |-> "", row |-> 0]
Ref(col, row) == [kind |-> "ref", text |-> "", col |-> col, row |-> row]
Blank         == <<>>
Literal(s)    == <<Text(s)>>

BlankRow ==
    [code |-> <<>>, name |-> "", quantity |-> Blank, unit |-> Blank,
     rate |-> Blank, cost |-> Blank]

\* The header row passed by every script: updateActivityRowFormulas(sheet, 9).
HeaderRow == 9

\* The number of rows of a worksheet.
WorksheetRows == 2 ^ 20

CodeAt(sh, r) == IF r \in 1..Len(sh) THEN sh[r].code ELSE <<>>

\* sheet.getRange(`B${r}`).getRangeEdge(down), as Ctrl+Down moves: to the
\* end of the run of non-empty cells the cell starts, else to the next
\* non-empty cell, else to the last row of the worksheet.
RangeEdgeDown(sh, r) ==
    IF CodeAt(sh, r) # <<>> /\ CodeAt(sh, r + 1) # <<>>
    THEN CHOOSE e \in r..Len(sh) :
             /\ \A k \in r..e : CodeAt(sh, k) # <<>>
             /\ CodeAt(sh, e + 1) = <<>>
    ELSE LET below == {k \in (r + 1)..Len(sh) : CodeAt(sh, k) # <<>>}
         IN  IF below = {} THEN WorksheetRows
             ELSE CHOOSE k \in below : \A j \in below : k <= j

\* Excel rewrites the references of every formula when rows move.
ShiftToken(t, atRow, count) ==
    IF t.kind = "ref" /\ t.row >= atRow THEN Ref(t.col, t.row + count) ELSE t

DropToken(t, fromRow, toRow) ==
    IF t.kind # "ref" THEN t
    ELSE IF t.row < fromRow THEN t
    ELSE IF t.row <= toRow THEN Text("#REF!")
    ELSE Ref(t.col, t.row - (toRow - fromRow + 1))

ShiftCell(cell, atRow, count) ==
    [k \in 1..Len(cell) |-> ShiftToken(cell[k], atRow, count)]

ShiftRowCells(row, atRow, count) ==
    [row EXCEPT !.quantity = ShiftCell(@, atRow, count),
                !.unit     = ShiftCell(@, atRow, count),
                !.rate     = ShiftCell(@, atRow, count),
                !.cost     = ShiftCell(@, atRow, count)]

DropCell(cell, fromRow, toRow) ==
    [k \in 1..Len(cell) |-> DropToken(cell[k], fromRow, toRow)]

DropRowCells(row, fromRow, toRow) ==
    [row EXCEPT !.quantity = DropCell(@, fromRow, toRow),
                !.unit     = DropCell(@, fromRow, toRow),
                !.rate     = DropCell(@, fromRow, toRow),
                !.cost     = DropCell(@, fromRow, toRow)]

\* sheet.getRange(`${atRow}:${atRow + count - 1}`).insert(down)
InsertRows(sh, atRow, count) ==
    [r \in 1..(Len(sh) + count) |->
        IF r < atRow THEN ShiftRowCells(sh[r], atRow, count)
        ELSE IF r < atRow + count THEN BlankRow
        ELSE ShiftRowCells(sh[r - count], atRow, count)]

\* sheet.getRange(`${fromRow}:${toRow}`).delete(up)
DeleteRows(sh, fromRow, toRow) ==
    [r \in 1..(Len(sh) - (toRow - fromRow + 1)) |->
        IF r < fromRow THEN DropRowCells(sh[r], fromRow, toRow)
        ELSE DropRowCells(sh[r + (toRow - fromRow + 1)], fromRow, toRow)]

\* How a script, or a step of one, leaves the worksheet.
Done(sh)      == [threw |-> FALSE, error |-> "", sheet |-> sh]
Failed(e, sh) == [threw |-> TRUE, error |-> e, sheet |-> sh]

\* The number of rows of sheet.getRange(`X${a}:X${b}`): the range is the
\* same whichever corner is named first.
RangeRowCount(a, b) == IF a <= b THEN b - a + 1 ELSE a - b + 1

\* What writing to the columns of a range does to a row: B:J takes a whole
\* row, B an item code, G a quantity, G:J the four cells of an activity.
WriteColumns(row, v, columns) ==
    CASE columns = "B:J" -> v
      [] columns = "B"   -> [row EXCEPT !.code = v]
      [] columns = "G"   -> [row EXCEPT !.quantity = v]
      [] columns = "G:J" -> [row EXCEPT !.quantity = v.quantity, !.unit = v.unit,
                                        !.rate = v.rate, !.cost = v.cost]

\* range.setValues / range.setFormulas refuse an array that has not the
\* rows of the range.
SetRows(sh, topRow, bottomRow, rows, columns) ==
    IF Len(rows) # RangeRowCount(topRow, bottomRow)
    THEN Failed("the input array doesn't match the size of the range", sh)
    ELSE Done([r \in 1..Len(sh) |->
                 IF r >= topRow /\ r <= bottomRow
                 THEN WriteColumns(sh[r], rows[r - topRow + 1], columns)
                 ELSE sh[r]])

-----------------------------------------------------------------------------
(* transformTableToActivityObjects *)

ActivityObjects(sh, dataTopRow, dataBottomRow) ==
    LET codes == [i \in 1..(dataBottomRow - dataTopRow + 1) |->
                     sh[dataTopRow + i - 1].code]
        marks == markHasChild(codes)
    IN  [i \in 1..Len(codes) |->
            [rowNumber      |-> dataTopRow + i - 1,
             itemCode       |-> codes[i],
             activityName   |-> sh[dataTopRow + i - 1].name,
             quantity       |-> sh[dataTopRow + i - 1].quantity,
             unit           |-> sh[dataTopRow + i - 1].unit,
             rate           |-> sh[dataTopRow + i - 1].rate,
             cost           |-> sh[dataTopRow + i - 1].cost,
             hierarchyLevel |-> hierarchyLevelOf(codes[i]),
             hasChild       |-> marks[i]]]

transformTableToActivityObjects(sh) ==
    LET bottomTotalsRow == RangeEdgeDown(sh, HeaderRow)
        dataTopRow      == HeaderRow + 1
        dataBottomRow   == bottomTotalsRow - 1
        objects         == ActivityObjects(sh, dataTopRow, dataBottomRow)
    IN  IF dataBottomRow < dataTopRow
        THEN [activityObjectsArray |-> <<>>,
              dataTopRow |-> dataTopRow, dataBottomRow |-> dataBottomRow]
        ELSE [activityObjectsArray |->
                  [i \in 1..Len(objects) |->
                      IF objects[i].hasChild
                      THEN [objects[i] EXCEPT !.rate = Blank]
                      ELSE objects[i]],
              dataTopRow |-> dataTopRow, dataBottomRow |-> dataBottomRow]

-----------------------------------------------------------------------------
(* updateActivityRowFormulas *)

\* `=IFERROR(IF(G${r}="-", "-", G${r}*I${r}), "[pending values]")`
ProductFormula(r) ==
    <<Text("=IFERROR(IF("), Ref("G", r), Text("=\"-\", \"-\", "),
      Ref("G", r), Text("*"), Ref("I", r),
      Text("), \"[pending values]\")")>>

\* formula += `J${item.rowNumber},` for every item the test picks, in order.
RECURSIVE AppendRefs(_, _, _, _)
AppendRefs(formula, objects, picked, i) ==
    IF i > Len(objects) THEN formula
    ELSE AppendRefs(
             IF picked[i]
             THEN formula \o <<Ref("J", objects[i].rowNumber), Text(",")>>
             ELSE formula,
             objects, picked, i + 1)

\* "=SUM(" + the references + slice(0, -1) + ")": slice drops the last
\* character, the trailing comma, or the "(" when nothing was appended.
DropLast(formula) == SubSeq(formula, 1, Len(formula) - 1)

SumFormula(objects, picked) ==
    DropLast(AppendRefs(<<Text("=SUM"), Text("(")>>, objects, picked, 1))
        \o <<Text(")")>>

ChildSumFormula(objects, activity) ==
    SumFormula(objects,
               [i \in 1..Len(objects) |->
                   /\ StartsWith(objects[i].itemCode, activity.itemCode \o <<Hyphen>>)
                   /\ objects[i].hierarchyLevel = activity.hierarchyLevel + 1])

\* A variant of the leaf branch that writes the placeholders over whatever
\* the cells hold.
UpdatedLeafResetting(activity) ==
    [activity EXCEPT
        !.quantity = Literal("[qty]"),
        !.unit     = Literal("[unit]"),
        !.rate     = Literal("[rate]"),
        !.cost     = ProductFormula(activity.rowNumber)]

\* The leaf branch: placeholders for blank cells, the product as cost.
UpdatedLeaf(activity) ==
    [activity EXCEPT
        !.quantity = IF @ = Blank THEN Literal("[qty]") ELSE @,
        !.unit     = IF @ = Blank THEN Literal("[unit]") ELSE @,
        !.rate     = IF @ = Blank \/ @ = Literal("#REF!")
                     THEN Literal("[rate]") ELSE @,
        !.cost     = ProductFormula(activity.rowNumber)]

\* A variant of the lump-sum branch that leaves the "[qty]" placeholder in
\* the quantity of a row that has it.
UpdatedLumpSumKeepingPlaceholder(objects, activity) ==
    [activity EXCEPT
        !.quantity = IF @ = Literal("[qty]") THEN Blank ELSE Literal("1"),
        !.unit     = Literal("LS"),
        !.rate     = Blank,
        !.cost     = ChildSumFormula(objects, activity)]

\* The lump-sum branch of a row with children.
UpdatedLumpSum(objects, activity) ==
    [activity EXCEPT
        !.quantity = Literal("1"),
        !.unit     = Literal("LS"),
        !.rate     = Blank,
        !.cost     = ChildSumFormula(objects, activity)]

\* The preserveQtyAndUnit branch of a row with children.
UpdatedMeasured(objects, activity) ==
    [activity EXCEPT
        !.rate = ChildSumFormula(objects, activity),
        !.cost = ProductFormula(activity.rowNumber)]

\* A variant of the test that does not look for the quantity 1.
preserveQtyAndUnitIgnoringOne(activity) ==
    /\ activity.unit # Literal("LS")
    /\ activity.quantity # Literal("[qty]")

preserveQtyAndUnit(activity) ==
    /\ activity.unit # Literal("LS")
    /\ activity.quantity # Literal("1")
    /\ activity.quantity # Literal("[qty]")

\* The body shared by the three copies of updateActivityRowFormulas, up to
\* the write of columns G..J.  preserves: the copy has the
\* preserveQtyAndUnit branch.
UpdateRows(sh, preserves) ==
    LET bottomTotalsRow == RangeEdgeDown(sh, HeaderRow)
        dataTopRow      == HeaderRow + 1
        dataBottomRow   == bottomTotalsRow - 1
        objects         == ActivityObjects(sh, dataTopRow, dataBottomRow)
        updated         ==
            [i \in 1..Len(objects) |->
                IF objects[i].hasChild
                THEN IF preserves /\ preserveQtyAndUnit(objects[i])
                     THEN UpdatedMeasured(objects, objects[i])
                     ELSE UpdatedLumpSum(objects, objects[i])
                ELSE UpdatedLeaf(objects[i])]
    IN  IF dataBottomRow = HeaderRow
        THEN Done(sh)
        ELSE SetRows(sh, dataTopRow, dataBottomRow, updated, "G:J")

\* The copy of the script that inserts several children: it also writes
\* the grand total.
updateActivityRowFormulas(sh) ==
    LET bottomTotalsRow == RangeEdgeDown(sh, HeaderRow)
        dataTopRow      == HeaderRow + 1
        dataBottomRow   == bottomTotalsRow - 1
        objects         == ActivityObjects(sh, dataTopRow, dataBottomRow)
        written         == UpdateRows(sh, TRUE)
    IN  IF dataBottomRow = HeaderRow \/ written.threw
        THEN written
        ELSE Done([written.sheet EXCEPT
                      ![bottomTotalsRow].cost = SumFormula(objects,
                              [i \in 1..Len(objects) |->
                                  objects[i].hierarchyLevel = 0])])

\* The copy of the script that deletes rows.
updateActivityRowFormulasOfDelete(sh) == UpdateRows(sh, TRUE)

\* The copy of the script that inserts one child.
updateActivityRowFormulasOfInsertOne(sh) == UpdateRows(sh, FALSE)

-----------------------------------------------------------------------------
(* The insertion planner *)

\* The cells of column B from startRow down to the range edge.  The cells
\* below the last used row are empty and are left out.
CodesDownTo(sh, startRow, edge) ==
    [i \in 1..((IF edge <= Len(sh) THEN edge ELSE Len(sh)) - startRow + 1) |->
        [rowNumber |-> startRow + i - 1, itemCode |-> sh[startRow + i - 1].code]]

getAllItemCodesFromGivenRow(sh, startRow) ==
    CodesDownTo(sh, startRow, RangeEdgeDown(sh, startRow))

\* array.filter: the picked elements in their order.
RECURSIVE Filter(_, _, _)
Filter(items, picked, i) ==
    IF i > Len(items) THEN <<>>
    ELSE (IF picked[i] THEN <<items[i]>> ELSE <<>>) \o Filter(items, picked, i + 1)

\* The items below that start with parentCode + "-" and lie deeper.
ChildrenAmong(parentCode, itemCodesBelow) ==
    Filter(itemCodesBelow,
           [i \in 1..Len(itemCodesBelow) |->
               /\ StartsWith(itemCodesBelow[i].itemCode, parentCode \o <<Hyphen>>)
               /\ hierarchyLevelOf(itemCodesBelow[i].itemCode)
                     > hierarchyLevelOf(parentCode)],
           1)

getAllChildActivityItemCodes(sh, rowNumber) ==
    ChildrenAmong(CodeAt(sh, rowNumber),
                  getAllItemCodesFromGivenRow(sh, rowNumber + 1))

Plan(row, code, level) ==
    [newChildInsertionRow |-> row, newChildItemCode |-> code,
     newChildHierarchyLevel |-> level]

\* CASE 2, once the code of the last immediate child was incremented.
PlanAfter(row, incremented, level) ==
    IF incremented.threw THEN incremented
    ELSE Returned(Plan(row, incremented.value, level))

\* A variant of CASE 2 that inserts right after the last immediate child,
\* not after the last descendant.
PlanAfterLastImmediateChild(parentHierarchyLevel, childItems, matchingLevelChildren) ==
    IF Len(matchingLevelChildren) = 0
    THEN Threw("TypeError: lastImmediateChild is undefined")
    ELSE PlanAfter(matchingLevelChildren[Len(matchingLevelChildren)].rowNumber + 1,
                   incrementLastItemCodeSegment(
                       matchingLevelChildren[Len(matchingLevelChildren)].itemCode),
                   parentHierarchyLevel + 1)

\* A variant of CASE 2 that increments the code of the first immediate
\* child, not of the last.
PlanWithFirstImmediateChild(parentHierarchyLevel, childItems, matchingLevelChildren) ==
    IF Len(matchingLevelChildren) = 0
    THEN Threw("TypeError: lastImmediateChild is undefined")
    ELSE PlanAfter(childItems[Len(childItems)].rowNumber + 1,
                   incrementLastItemCodeSegment(matchingLevelChildren[1].itemCode),
                   parentHierarchyLevel + 1)

\* CASE 2: lastImmediateChild is undefined when no child is one level down,
\* and reading its itemCode throws.
PlanWithChildren(parentHierarchyLevel, childItems, matchingLevelChildren) ==
    IF Len(matchingLevelChildren) = 0
    THEN Threw("TypeError: lastImmediateChild is undefined")
    ELSE PlanAfter(childItems[Len(childItems)].rowNumber + 1,
                   incrementLastItemCodeSegment(
                       matchingLevelChildren[Len(matchingLevelChildren)].itemCode),
                   parentHierarchyLevel + 1)

\* A variant that takes CASE 1 whatever lies below the parent.
PlanForFirstChildAlways(parentItemCode, parentHierarchyLevel, selectedParentRow, childItems) ==
    Returned(Plan(selectedParentRow + 1,
                  parentItemCode \o <<Hyphen, "1">>,
                  parentHierarchyLevel + 1))

PlanFor(parentItemCode, parentHierarchyLevel, selectedParentRow, childItems) ==
    IF Len(childItems) = 0
    THEN Returned(Plan(selectedParentRow + 1,
                       parentItemCode \o <<Hyphen, "1">>,
                       parentHierarchyLevel + 1))
    ELSE PlanWithChildren(
             parentHierarchyLevel, childItems,
             Filter(childItems,
                    [i \in 1..Len(childItems) |->
                        hierarchyLevelOf(childItems[i].itemCode)
                            = parentHierarchyLevel + 1],
                    1))

computeNewChildItemCodeAndInsertionRow(sh, selectedParentRow) ==
    PlanFor(CodeAt(sh, selectedParentRow),
            hierarchyLevelOf(CodeAt(sh, selectedParentRow)),
            selectedParentRow,
            getAllChildActivityItemCodes(sh, selectedParentRow))

-----------------------------------------------------------------------------
(* The scripts *)

\* A variant that gives every new child the first code.
ChildCodesRepeating(codes, numChildren) ==
    Returned([k \in 1..numChildren |-> codes[1]])

\* The codes of the new children: the first, then each the increment of
\* the one before (Threw if an increment throws).
RECURSIVE ChildCodes(_, _)
ChildCodes(codes, numChildren) ==
    IF Len(codes) >= numChildren THEN Returned(codes)
    ELSE LET next == incrementLastItemCodeSegment(codes[Len(codes)])
         IN  IF next.threw THEN next
             ELSE ChildCodes(Append(codes, next.value), numChildren)

NewRow(code, name) ==
    [code |-> code, name |-> name, quantity |-> Literal("[qty]"),
     unit |-> Literal("[unit]"), rate |-> Literal("[rate]"),
     cost |-> Literal("[insert formula]")]

\* Insert the rows in one call, then set all the headers at once.
InsertCodes(sh, at, childCodes) ==
    IF childCodes.threw THEN Failed(childCodes.error, sh)
    ELSE SetRows(InsertRows(sh, at, Len(childCodes.value)),
                 at, at + Len(childCodes.value) - 1,
                 [k \in 1..Len(childCodes.value) |->
                     NewRow(childCodes.value[k], "[Insert Activity/Item]")],
                 "B:J")

InsertPlanned(sh, numChildren, plan) ==
    IF plan.threw THEN Failed(plan.error, sh)
    ELSE InsertCodes(sh, plan.value.newChildInsertionRow,
                     ChildCodes(<<plan.value.newChildItemCode>>, numChildren))

\* What getValue returns for cell M2: a number, "" for a blank cell, or the
\* text typed in it (here a text that is not a numeral).
CellNumber(n) == [kind |-> "number", n |-> n]
CellBlank     == [kind |-> "blank", n |-> 0]
CellText      == [kind |-> "text", n |-> 0]

\* !numChildren || numChildren < 1: "" and 0 are falsy; a text is truthy
\* and, compared with 1 as NaN, not less than 1.
NoChildrenToInsert(numChildren) ==
    \/ numChildren.kind = "blank"
    \/ numChildren.kind = "number" /\ numChildren.n < 1

\* With a text in M2 the loop adds no code (i < NaN is false) and the
\* address of the rows to insert ends in NaN: getRange throws.
InsertPlannedForText(sh, plan) ==
    IF plan.threw THEN Failed(plan.error, sh)
    ELSE Failed("getRange: the argument is invalid", sh)

insertMultipleChildItemRows(sh, numChildren, activeCellRowNumber) ==
    IF NoChildrenToInsert(numChildren) THEN Done(sh)
    ELSE IF numChildren.kind = "text"
    THEN InsertPlannedForText(
             sh, computeNewChildItemCodeAndInsertionRow(sh, activeCellRowNumber))
    ELSE InsertPlanned(
             sh, numChildren.n,
             computeNewChildItemCodeAndInsertionRow(sh, activeCellRowNumber))

insertChildItemRow(sh, activeCellRowNumber) ==
    InsertPlanned(sh, 1,
                  computeNewChildItemCodeAndInsertionRow(sh, activeCellRowNumber))

\* The second statement of main runs unless the first threw.
ThenUpdate(inserted) ==
    IF inserted.threw THEN inserted ELSE updateActivityRowFormulas(inserted.sheet)

ThenUpdateOfInsertOne(inserted) ==
    IF inserted.threw THEN inserted
    ELSE updateActivityRowFormulasOfInsertOne(inserted.sheet)

\* main of the script that inserts numChildren (cell M2) children.
mainInsertChildren(sh, numChildren, activeCellRowNumber) ==
    ThenUpdate(insertMultipleChildItemRows(sh, numChildren, activeCellRowNumber))

\* main of the script that inserts one child.
mainInsertOneChild(sh, activeCellRowNumber) ==
    ThenUpdateOfInsertOne(insertChildItemRow(sh, activeCellRowNumber))

refreshActivityItemCodes(sh) ==
    LET table == transformTableToActivityObjects(sh)
        existingItemCodes ==
            [i \in 1..Len(table.activityObjectsArray) |->
                table.activityObjectsArray[i].itemCode]
        newItemCodes == reindexItemCodes(existingItemCodes)
    IN  SetRows(sh, table.dataTopRow, table.dataBottomRow, newItemCodes, "B")

\* Steps 05-06: the formulas are updated unless the refresh threw.
ThenUpdateOfDelete(refreshed) ==
    IF refreshed.threw THEN refreshed
    ELSE updateActivityRowFormulasOfDelete(refreshed.sheet)

\* A variant that deletes the selection first and validates it afterwards.
DeleteThenValidate(sh, activeRangeTopRow, activeRangeBottomRow) ==
    LET table == transformTableToActivityObjects(sh)
    IN  IF \/ activeRangeTopRow < table.dataTopRow
           \/ activeRangeBottomRow > table.dataBottomRow
        THEN Failed("Selected row not deleted - row not within data range!",
                    DeleteRows(sh, activeRangeTopRow, activeRangeBottomRow))
        ELSE ThenUpdateOfDelete(
                 refreshActivityItemCodes(
                     DeleteRows(sh, activeRangeTopRow, activeRangeBottomRow)))

\* Steps 01-04: validate, delete, refresh the codes.
DeletedAndRefreshed(sh, activeRangeTopRow, activeRangeBottomRow) ==
    LET table == transformTableToActivityObjects(sh)
    IN  IF \/ activeRangeTopRow < table.dataTopRow
           \/ activeRangeBottomRow > table.dataBottomRow
        THEN Failed("Selected row not deleted - row not within data range!", sh)
        ELSE refreshActivityItemCodes(
                 DeleteRows(sh, activeRangeTopRow, activeRangeBottomRow))

\* A variant that updates the formulas right after the deletion and
\* refreshes the codes last.
DeleteUpdateThenRefresh(sh, activeRangeTopRow, activeRangeBottomRow) ==
    LET table == transformTableToActivityObjects(sh)
        updated == updateActivityRowFormulasOfDelete(
                       DeleteRows(sh, activeRangeTopRow, activeRangeBottomRow))
    IN  IF \/ activeRangeTopRow < table.dataTopRow
           \/ activeRangeBottomRow > table.dataBottomRow
        THEN Failed("Selected row not deleted - row not within data range!", sh)
        ELSE IF updated.threw THEN updated
        ELSE refreshActivityItemCodes(updated.sheet)

deleteSelectedActivitiesAndRefresh(sh, activeRangeTopRow, activeRangeBottomRow) ==
    ThenUpdateOfDelete(
        DeletedAndRefreshed(sh, activeRangeTopRow, activeRangeBottomRow))

\* A variant that writes the activity objects back over columns G..J, the
\* rate cleared by the transform included.
mainResetQuantitiesWritingObjects(sh) ==
    LET table == transformTableToActivityObjects(sh)
        activities ==
            [i \in 1..Len(table.activityObjectsArray) |->
                IF table.activityObjectsArray[i].hasChild
                THEN table.activityObjectsArray[i]
                ELSE [table.activityObjectsArray[i] EXCEPT
                         !.quantity = Literal("[qty]")]]
    IN  SetRows(sh, table.dataTopRow, table.dataBottomRow, activities, "G:J")

\* main of the script that resets the quantities.
mainResetQuantities(sh) ==
    LET table == transformTableToActivityObjects(sh)
        activityQuantities ==
            [i \in 1..Len(table.activityObjectsArray) |->
                IF table.activityObjectsArray[i].hasChild
                THEN table.activityObjectsArray[i].quantity
                ELSE Literal("[qty]")]
    IN  SetRows(sh, table.dataTopRow, table.dataBottomRow,
                activityQuantities, "G")

-----------------------------------------------------------------------------
(* The tables the user starts from: header in row 9, the data rows in      *)
(* pre-order with contiguous codes, then the grand-total row.               *)

RootNames == <<"A", "B", "C", "D", "E", "F", "G">>

HeaderLabel == <<"I", "t", "e", "m">>
TotalLabel  == <<"T", "O", "T", "A", "L">>

RootCount(codes) ==
    Cardinality({i \in 1..Len(codes) : hierarchyLevelOf(codes[i]) = 0})

\* The codes that may follow a pre-order list: the next root, the first
\* child of the last row, or the next sibling of the last row or of one of
\* its ancestors.
NextCodes(codes) ==
    IF codes = <<>> THEN {<<RootNames[1]>>}
    ELSE LET segments == Split(codes[Len(codes)])
         IN  {<<RootNames[RootCount(codes) + 1]>>}
             \cup {codes[Len(codes)] \o <<Hyphen, "1">>}
             \cup {incrementLastItemCodeSegment(
                       Join(SubSeq(segments, 1, k))).value :
                   k \in 2..Len(segments)}

RECURSIVE CodeTables(_)
CodeTables(n) ==
    IF n = 0 THEN {<<>>}
    ELSE UNION {{Append(codes, c) : c \in NextCodes(codes)} :
                   codes \in CodeTables(n - 1)}

\* What the user has typed in columns G..I of a row.
Authored ==
    {[quantity |-> Blank, unit |-> Blank, rate |-> Blank],
     [quantity |-> Literal("5"), unit |-> Literal("m"), rate |-> Literal("7")]}

DataRow(code, a) ==
    [code |-> code, name |-> "item", quantity |-> a.quantity, unit |-> a.unit,
     rate |-> a.rate, cost |-> Blank]

TitleRow(label) ==
    [code |-> label, name |-> "", quantity |-> Blank, unit |-> Blank,
     rate |-> Blank, cost |-> Blank]

Table(codes, authored) ==
    [r \in 1..(HeaderRow + Len(codes) + 1) |->
        IF r < HeaderRow THEN BlankRow
        ELSE IF r = HeaderRow THEN TitleRow(HeaderLabel)
        ELSE IF r = HeaderRow + Len(codes) + 1 THEN TitleRow(TotalLabel)
        ELSE DataRow(codes[r - HeaderRow], authored[r - HeaderRow])]

\* The rarer rows: quantity 1 with a unit of measure and an error marker
\* as rate, and a row marked "LS" with a quantity other than 1.
Pinned ==
    {[quantity |-> Literal("1"), unit |-> Literal("m"), rate |-> Literal("#REF!")],
     [quantity |-> Literal("5"), unit |-> Literal("LS"), rate |-> Literal("7")]}

\* The contents of n data rows: any mix of the rows of Authored, or one
\* row of Pinned among blank rows.
AuthoredRows(n) ==
    [1..n -> Authored] \cup
    {[i \in 1..n |-> IF i = k THEN p
                     ELSE [quantity |-> Blank, unit |-> Blank, rate |-> Blank]] :
        k \in 1..n, p \in Pinned}

\* Codes typed by hand: siblings numbered with a gap, and siblings out of
\* order.
HandNumbered ==
    {<<<<"A">>, <<"A", Hyphen, "1">>, <<"A", Hyphen, "3">>>>,
     <<<<"A">>, <<"A", Hyphen, "2">>, <<"A", Hyphen, "1">>>>}

InitialTables ==
    UNION {{Table(codes, authored) :
               codes \in CodeTables(n), authored \in AuthoredRows(n)} :
           n \in 0..MaxDataRows}
    \cup {Table(codes, [i \in 1..Len(codes) |->
                           [quantity |-> Blank, unit |-> Blank, rate |-> Blank]]) :
             codes \in HandNumbered}

-----------------------------------------------------------------------------
(* The scripts as the steps of a session.  The active cell and the         *)
(* selection lie on the rows of the table: header, data rows, grand total.  *)

NoPlan == Threw("not planned")

\* before: how the statements in front of updateActivityRowFormulas ended.
\* mid is the worksheet that update found, updated tells that it ran.
Ran(name, numChildren, topRow, bottomRow, result, plan, before, updates) ==
    [name |-> name, numChildren |-> numChildren.n, count |-> numChildren.kind,
     topRow |-> topRow,
     bottomRow |-> bottomRow, threw |-> result.threw, error |-> result.error,
     plan |-> plan, mid |-> before.sheet,
     updated |-> updates /\ ~before.threw]

\* What cell M2 may hold.
CountCells == {CellNumber(n) : n \in 0..MaxChildren} \cup {CellBlank, CellText}

TableRows(sh) == HeaderRow..RangeEdgeDown(sh, HeaderRow)

Init ==
    /\ sheet \in InitialTables
    /\ pre = sheet
    /\ op = Ran("none", CellNumber(0), 0, 0, Done(sheet), NoPlan, Done(sheet), FALSE)
    /\ steps = 0
    /\ input = [fn |-> "none", arg |-> <<>>, fed |-> FALSE]
    /\ ret = [threw |-> FALSE, error |-> "pending", value |-> <<>>]

Run(result, record) ==
    /\ steps < MaxSteps
    /\ steps' = steps + 1
    /\ pre' = sheet
    /\ sheet' = result.sheet
    /\ op' = record
    /\ UNCHANGED <<input, ret>>

InsertChildren ==
    \E numChildren \in CountCells, activeRow \in TableRows(sheet) :
        LET result == mainInsertChildren(sheet, numChildren, activeRow)
            plan   == IF NoChildrenToInsert(numChildren) THEN NoPlan
                      ELSE computeNewChildItemCodeAndInsertionRow(sheet, activeRow)
        IN  Run(result,
                Ran("insertChildren", numChildren, activeRow, activeRow,
                    result, plan,
                    insertMultipleChildItemRows(sheet, numChildren, activeRow),
                    TRUE))

InsertOneChild ==
    \E activeRow \in TableRows(sheet) :
        LET result == mainInsertOneChild(sheet, activeRow)
            plan   == computeNewChildItemCodeAndInsertionRow(sheet, activeRow)
        IN  Run(result,
                Ran("insertOneChild", CellNumber(1), activeRow, activeRow,
                    result, plan, insertChildItemRow(sheet, activeRow), TRUE))

DeleteSelected ==
    \E topRow \in TableRows(sheet), bottomRow \in TableRows(sheet) :
        /\ topRow <= bottomRow
        /\ LET result == deleteSelectedActivitiesAndRefresh(sheet, topRow, bottomRow)
           IN  Run(result,
                   Ran("deleteSelected", CellNumber(0), topRow, bottomRow,
                       result, NoPlan,
                       DeletedAndRefreshed(sheet, topRow, bottomRow), TRUE))

ResetQuantities ==
    LET result == mainResetQuantities(sheet)
    IN  Run(result,
            Ran("resetQuantities", CellNumber(0), 0, 0, result, NoPlan,
                Done(sheet), FALSE))

Next ==
    \/ InsertChildren
    \/ InsertOneChild
    \/ DeleteSelected
    \/ ResetQuantities

Spec == Init /\ [][Next]_vars

-----------------------------------------------------------------------------
(* The helper functions called on their own.  Init draws the call (the      *)
(* function and its argument) and the actions make it.                      *)

\* "A", "A-1", "B-2-1", ...: a root label followed by numbered segments.
Code(root, numbers) ==
    Join(<<<<root>>>> \o [k \in 1..Len(numbers) |-> NumberToString(numbers[k])])

RootLabels == {"A", "B"}

ListCodes ==
    {Code(r, ns) : r \in RootLabels,
                   ns \in UNION {[1..d -> 1..2] : d \in 0..2}}

CodeLists == UNION {[1..n -> ListCodes] : n \in 0..MaxListLen}

\* The example of the documentation of reindexItemCodes.
ExampleInput ==
    <<Code("A", <<>>), Code("A", <<1>>), Code("A", <<1, 1>>),
      Code("A", <<1, 3>>), Code("A", <<2>>), Code("A", <<2, 1>>),
      Code("A", <<3>>), Code("A", <<3, 2>>)>>

ExampleOutput ==
    <<Code("A", <<>>), Code("A", <<1>>), Code("A", <<1, 1>>),
      Code("A", <<1, 2>>), Code("A", <<2>>), Code("A", <<2, 1>>),
      Code("A", <<3>>), Code("A", <<3, 1>>)>>

\* Every string of at most MaxCodeLen characters over a letter, the hyphen
\* and three digits.
CodeChars == {"A", Hyphen, "0", "1", "9"}

IncrementInputs == UNION {[1..n -> CodeChars] : n \in 0..MaxCodeLen}

\* The code lists the delete script hands over: a contiguous table with
\* one row removed (the rows below it keep their codes).
RemoveAt(l, k) == SubSeq(l, 1, k - 1) \o SubSeq(l, k + 1, Len(l))

DeletionLists ==
    {RemoveAt(codes, k) : codes \in CodeTables(MaxTableLen), k \in 1..MaxTableLen}

NoSheet == <<>>
NoOp    == [name |-> "none"]
NoCall  == [fn |-> "none", arg |-> <<>>, fed |-> FALSE]
NoRet   == [threw |-> FALSE, error |-> "pending", value |-> <<>>]

Call(fn, arg) == [fn |-> fn, arg |-> arg, fed |-> FALSE]

InitPure ==
    /\ sheet = NoSheet
    /\ pre = NoSheet
    /\ op = NoOp
    /\ steps = 0
    /\ input \in {Call("reindexItemCodes", l) :
                     l \in CodeLists \cup {ExampleInput} \cup DeletionLists}
                 \cup {Call("markHasChild", l) : l \in CodeLists}
                 \cup {Call("incrementLastItemCodeSegment", c) :
                          c \in IncrementInputs}
    /\ ret = NoRet

CallReindex ==
    /\ input.fn = "reindexItemCodes"
    /\ ret = NoRet
    /\ ret' = Returned(reindexItemCodes(input.arg))
    /\ UNCHANGED <<sheet, pre, op, steps, input>>

\* The result of reindexItemCodes handed to reindexItemCodes again.
CallReindexAgain ==
    /\ input.fn = "reindexItemCodes"
    /\ ret # NoRet
    /\ ~input.fed
    /\ input' = [input EXCEPT !.arg = ret.value, !.fed = TRUE]
    /\ ret' = Returned(reindexItemCodes(ret.value))
    /\ UNCHANGED <<sheet, pre, op, steps>>

CallMarkHasChild ==
    /\ input.fn = "markHasChild"
    /\ ret = NoRet
    /\ ret' = Returned(markHasChild(input.arg))
    /\ UNCHANGED <<sheet, pre, op, steps, input>>

CallIncrement ==
    /\ input.fn = "incrementLastItemCodeSegment"
    /\ ret = NoRet
    /\ ret' = incrementLastItemCodeSegment(input.arg)
    /\ UNCHANGED <<sheet, pre, op, steps, input>>

NextPure ==
    \/ CallReindex
    \/ CallReindexAgain
    \/ CallMarkHasChild
    \/ CallIncrement

SpecPure == InitPure /\ [][NextPure]_vars

-----------------------------------------------------------------------------
(* Vocabulary of the claims, stated on the segments of a code *)

Segments(code) == Split(code)
Depth(code)    == Len(Segments(code)) - 1
RootSegment(code) == Segments(code)[1]
LastSegment(code) == Segments(code)[Len(Segments(code))]

\* child is one level below parent and carries parent's segments in front.
IsImmediateChild(child, parent) ==
    /\ Len(Segments(child)) = Len(Segments(parent)) + 1
    /\ SubSeq(Segments(child), 1, Len(Segments(parent))) = Segments(parent)

\* child is any number of levels (at least one) below parent.
IsDescendant(child, parent) ==
    /\ Len(Segments(child)) > Len(Segments(parent))
    /\ SubSeq(Segments(child), 1, Len(Segments(parent))) = Segments(parent)

\* A decimal numeral: digits, the first not 0 unless it is the only one.
IsNumeral(s) ==
    /\ Len(s) >= 1
    /\ \A i \in 1..Len(s) : IsDigit(s[i])
    /\ Len(s) > 1 => s[1] # "0"

\* A run of digits: what the claims call a non-negative integer segment.
IsIntegerText(s) == Len(s) >= 1 /\ \A i \in 1..Len(s) : IsDigit(s[i])

\* The row that list position i hangs under: the nearest earlier position
\* of smaller depth (0 if there is none).
ParentPos(l, i) ==
    LET above == {j \in 1..(i - 1) : Depth(l[j]) < Depth(l[i])}
    IN  IF above = {} THEN 0 ELSE CHOOSE j \in above : \A k \in above : k <= j

\* The list is a pre-order walk of a forest whose sibling groups are
\* numbered 1, 2, ..., k in order under their parent.
IsContiguous(l) ==
    \A i \in 1..Len(l) :
        IF Depth(l[i]) = 0 THEN Len(l[i]) >= 1
        ELSE LET p == ParentPos(l, i)
                 earlier == {j \in (p + 1)..(i - 1) : Depth(l[j]) = Depth(l[i])}
             IN  /\ p > 0
                 /\ Segments(l[i]) =
                      Append(Segments(l[p]), NumberToString(Cardinality(earlier) + 1))

Reindexed == input.fn = "reindexItemCodes" /\ ret # NoRet

-----------------------------------------------------------------------------
(* C1 - reindexItemCodes applied to the example of its documentation,      *)
(* ["A","A-1","A-1-1","A-1-3","A-2","A-2-1","A-3","A-3-2"], returns exactly *)
(* ["A","A-1","A-1-1","A-1-2","A-2","A-2-1","A-3","A-3-1"].                 *)
C1_ReindexExample ==
    (Reindexed /\ input.arg = ExampleInput) => ret.value = ExampleOutput

C1_Witness == Reindexed /\ input.arg = ExampleInput /\ ~input.fed

(* C2 - the Reindexer is idempotent: reindexing the result of a reindexing  *)
(* returns it unchanged, and reindexing an already contiguous list returns *)
(* that list.                                                               *)
C2_ReindexIdempotent ==
    Reindexed =>
        /\ input.fed => ret.value = input.arg
        /\ IsContiguous(input.arg) => ret.value = input.arg

\* The result of a reindexing, a contiguous list of full length that
\* reaches depth 2, was reindexed again.
C2_Witness ==
    /\ Reindexed
    /\ input.fed
    /\ Len(input.arg) = MaxListLen
    /\ \E i \in 1..Len(input.arg) : Depth(input.arg[i]) = 2
    /\ IsContiguous(input.arg)

(* C3 (as claimed) - for every input list the output has the same length,  *)
(* the i-th output has the depth and the root segment of the i-th input,    *)
(* and a depth-0 code is returned verbatim.                                 *)
C3_Original ==
    Reindexed =>
        /\ Len(ret.value) = Len(input.arg)
        /\ \A i \in 1..Len(input.arg) :
              /\ Depth(ret.value[i]) = Depth(input.arg[i])
              /\ RootSegment(ret.value[i]) = RootSegment(input.arg[i])
              /\ Depth(input.arg[i]) = 0 => ret.value[i] = input.arg[i]

\* The nearest depth-0 code at or before position i (0: none).
RootPos(l, i) ==
    LET roots == {j \in 1..i : Depth(l[j]) = 0}
    IN  IF roots = {} THEN 0 ELSE CHOOSE j \in roots : \A k \in roots : k <= j

(* C3 (amended) - for every input list the output has the same length, the *)
(* i-th output has the depth of the i-th input and a depth-0 code is        *)
(* returned verbatim; the root segment of the i-th output is that of the    *)
(* i-th input whenever that row follows a depth-0 row carrying the same     *)
(* root label with no other depth-0 row in between (as in every pre-order   *)
(* list).                                                                   *)
C3_ReindexFrame ==
    Reindexed =>
        /\ Len(ret.value) = Len(input.arg)
        /\ \A i \in 1..Len(input.arg) :
              /\ Depth(ret.value[i]) = Depth(input.arg[i])
              /\ Depth(input.arg[i]) = 0 => ret.value[i] = input.arg[i]
              /\ (/\ RootPos(input.arg, i) > 0
                  /\ input.arg[RootPos(input.arg, i)] = RootSegment(input.arg[i]))
                 => RootSegment(ret.value[i]) = RootSegment(input.arg[i])

\* A pre-order list under root B whose numbering changed.
C3_Witness ==
    /\ Reindexed
    /\ ~input.fed
    /\ Len(input.arg) = MaxListLen
    /\ input.arg[1] = <<"B">>
    /\ \A i \in 2..Len(input.arg) :
          Depth(input.arg[i]) > 0 /\ RootSegment(input.arg[i]) = <<"B">>
    /\ ret.value # input.arg

(* C4 - tree inference marks row i as hasChild if and only if row i+1       *)
(* exists and is an immediate child of row i (row i's code followed by one  *)
(* more segment); the last row is never marked, and a descendant two or     *)
(* more rows away, or two or more levels down, does not mark a row.         *)
C4_HasChildIffSuccessorIsChild ==
    (input.fn = "markHasChild" /\ ret # NoRet) =>
        /\ Len(ret.value) = Len(input.arg)
        /\ \A i \in 1..Len(input.arg) :
              ret.value[i] <=>
                 (i < Len(input.arg)
                  /\ IsImmediateChild(input.arg[i + 1], input.arg[i]))

\* Row 1 has an immediate child two rows away only, row 2 is marked.
C4_Witness ==
    /\ input.fn = "markHasChild" /\ ret # NoRet
    /\ Len(input.arg) = 3
    /\ IsImmediateChild(input.arg[3], input.arg[1])
    /\ ~ret.value[1]
    /\ ret.value[2]
    /\ ~ret.value[3]

\* The insertion planner ran in the last script: its input is the table
\* as it was (pre) and the row of the active cell.
Planned       == op.name \in {"insertChildren", "insertOneChild"} /\ op.numChildren >= 1
ParentRow     == op.topRow
ParentCode    == CodeAt(pre, ParentRow)
RowsBelow     == (ParentRow + 1)..Len(pre)
ImmediateChildRows ==
    {r \in RowsBelow : IsImmediateChild(CodeAt(pre, r), ParentCode)}
DescendantRows ==
    {r \in RowsBelow : IsDescendant(CodeAt(pre, r), ParentCode)}
Last(rows)    == CHOOSE r \in rows : \A q \in rows : q <= r

(* C5 - for every table and every selected parent row that has no          *)
(* immediate child below it, the planner returns the first new code         *)
(* parent.code + "-1", the insertion row parent.position + 1 and the        *)
(* hierarchy level parent.depth + 1.                                        *)
C5_FirstChildPlan ==
    (Planned /\ ImmediateChildRows = {}) =>
        /\ ~op.plan.threw
        /\ op.plan.value.newChildItemCode = ParentCode \o <<Hyphen, "1">>
        /\ op.plan.value.newChildInsertionRow = ParentRow + 1
        /\ op.plan.value.newChildHierarchyLevel = Depth(ParentCode) + 1

(* C6 - when the selected parent has immediate children, the first new     *)
(* code is the code of the positionally last immediate child with its       *)
(* final segment incremented by 1, and the insertion row is the row right   *)
(* after the parent's last descendant at any depth.                         *)
C6_NextSiblingPlan ==
    (Planned /\ ImmediateChildRows # {}) =>
        LET lastChild == CodeAt(pre, Last(ImmediateChildRows))
            newCode   == op.plan.value.newChildItemCode
        IN  /\ ~op.plan.threw
            /\ IsImmediateChild(newCode, ParentCode)
            /\ IsNumeral(LastSegment(newCode))
            /\ DecimalValue(LastSegment(newCode))
                  = DecimalValue(LastSegment(lastChild)) + 1
            /\ op.plan.value.newChildInsertionRow = Last(DescendantRows) + 1
            /\ op.plan.value.newChildHierarchyLevel = Depth(ParentCode) + 1

\* The last immediate child has a child of its own: the new sibling goes
\* below that grandchild.
C6_Witness ==
    /\ Planned
    /\ ImmediateChildRows # {}
    /\ Last(DescendantRows) > Last(ImmediateChildRows)
    /\ ~op.threw
    /\ CodeAt(sheet, Last(DescendantRows) + 1) = op.plan.value.newChildItemCode

(* C7 - for every code whose final segment is a non-negative integer k,     *)
(* incrementLastItemCodeSegment returns the code with the earlier segments  *)
(* unchanged and the final segment replaced by the decimal numeral of k+1.  *)
C7_IncrementIsNumeric ==
    (/\ input.fn = "incrementLastItemCodeSegment"
     /\ ret # NoRet
     /\ IsIntegerText(LastSegment(input.arg)))
    => /\ ~ret.threw
       /\ Len(Segments(ret.value)) = Len(Segments(input.arg))
       /\ \A j \in 1..(Len(Segments(input.arg)) - 1) :
             Segments(ret.value)[j] = Segments(input.arg)[j]
       /\ IsNumeral(LastSegment(ret.value))
       /\ DecimalValue(LastSegment(ret.value)) =
             DecimalValue(LastSegment(input.arg)) + 1

\* "A-9" was incremented: the numeral grows by a digit.
C7_Witness ==
    /\ input.fn = "incrementLastItemCodeSegment"
    /\ ret # NoRet
    /\ input.arg = <<"A", Hyphen, "9">>
    /\ ret.value = <<"A", Hyphen, "1", "0">>

(* C8 - incrementLastItemCodeSegment fails with InvalidCodeError for every  *)
(* code whose final segment is not a valid integer, a root-only label and   *)
(* an empty final segment ("A-") included; it never returns a code then.    *)
C8_IncrementRejectsNonInteger ==
    (/\ input.fn = "incrementLastItemCodeSegment"
     /\ ret # NoRet
     /\ ~IsIntegerText(LastSegment(input.arg)))
    => ret.threw

\* The bounds of the data range the deleting script detects.
DetectedTopRow(sh)    == HeaderRow + 1
DetectedBottomRow(sh) == RangeEdgeDown(sh, HeaderRow) - 1

OutOfBounds ==
    /\ op.name = "deleteSelected"
    /\ \/ op.topRow < DetectedTopRow(pre)
       \/ op.bottomRow > DetectedBottomRow(pre)

(* C9 - deleting a selection whose top row is above dataTopRow or whose     *)
(* bottom row is below dataBottomRow fails with the range error before any  *)
(* row is deleted and any code or formula rewritten: the grid after the     *)
(* call is the grid before it.                                              *)
C9_DeleteOutOfBoundsChangesNothing ==
    OutOfBounds =>
        /\ op.threw
        /\ op.error = "Selected row not deleted - row not within data range!"
        /\ sheet = pre

\* A selection that starts inside the data range and runs onto the
\* grand-total row.
C9_Witness ==
    /\ OutOfBounds
    /\ op.topRow >= DetectedTopRow(pre)
    /\ op.topRow <= DetectedBottomRow(pre)
    /\ op.bottomRow = DetectedBottomRow(pre) + 1

(* C10 - all-or-nothing: if a script ends with a fatal error, it has not    *)
(* changed the grid (no row inserted or deleted, no cell written).          *)
C10_FailureChangesNothing == op.threw => sheet = pre

-----------------------------------------------------------------------------
(* Vocabulary of the claims about updateActivityRowFormulas.  The update   *)
(* moves no row: row r of the worksheet it found (op.mid) is row r of the   *)
(* worksheet it left (sheet).                                               *)

Recomputed == op.updated /\ ~op.threw

DataRowsOf(sh) == (HeaderRow + 1)..(RangeEdgeDown(sh, HeaderRow) - 1)

\* Row r is followed, inside the data range, by an immediate child.
HasChildRow(sh, r) ==
    /\ r + 1 \in DataRowsOf(sh)
    /\ IsImmediateChild(CodeAt(sh, r + 1), CodeAt(sh, r))

\* The rows of the data range that are immediate children of row r.
ChildRowsOf(sh, r) ==
    {c \in DataRowsOf(sh) : IsImmediateChild(CodeAt(sh, c), CodeAt(sh, r))}

\* The cells a formula refers to, and how often it refers to a cell.
RefsOf(cell) == {cell[k] : k \in {j \in 1..Len(cell) : cell[j].kind = "ref"}}
RefCount(cell, ref) == Cardinality({k \in 1..Len(cell) : cell[k] = ref})

IsSumFormula(cell) == Len(cell) >= 1 /\ cell[1] = Text("=SUM")
IsProductFormula(cell, r) ==
    /\ Len(cell) >= 1
    /\ cell[1] = Text("=IFERROR(IF(")
    /\ RefsOf(cell) = {Ref("G", r), Ref("I", r)}

(* C11 - after updateActivityRowFormulas every leaf row has "[qty]",       *)
(* "[unit]", "[rate]" where its quantity, unit, rate were blank (a rate     *)
(* that is the error marker "#REF!" becomes "[rate]" too), keeps its other  *)
(* values, and has as cost the dash-or-product formula over the quantity    *)
(* and rate cells of its own row and of no other row.                       *)
C11_LeafPlaceholders ==
    Recomputed =>
        \A r \in DataRowsOf(op.mid) :
            ~HasChildRow(op.mid, r) =>
                /\ sheet[r].quantity =
                      (IF op.mid[r].quantity = Blank THEN Literal("[qty]")
                       ELSE op.mid[r].quantity)
                /\ sheet[r].unit =
                      (IF op.mid[r].unit = Blank THEN Literal("[unit]")
                       ELSE op.mid[r].unit)
                /\ sheet[r].rate =
                      (IF op.mid[r].rate \in {Blank, Literal("#REF!")}
                       THEN Literal("[rate]") ELSE op.mid[r].rate)
                /\ IsProductFormula(sheet[r].cost, r)

\* A blank leaf and a leaf whose rate was "#REF!" went through the update.
C11_Witness ==
    /\ Recomputed
    /\ \E r \in DataRowsOf(op.mid) :
          /\ ~HasChildRow(op.mid, r)
          /\ op.mid[r].quantity = Blank /\ op.mid[r].unit = Blank
          /\ op.mid[r].rate = Blank
          /\ sheet[r].quantity = Literal("[qty]")
    /\ \E r \in DataRowsOf(op.mid) :
          /\ ~HasChildRow(op.mid, r)
          /\ op.mid[r].rate = Literal("#REF!")
          /\ op.mid[r].quantity = Literal("1")
          /\ sheet[r].quantity = Literal("1")
          /\ sheet[r].rate = Literal("[rate]")

\* What the claims call the lump-sum signals of a row, and a roll-up: a SUM
\* over the cost cells of the immediate children of row r and nothing else.
LooksLumpSum(row) ==
    \/ row.unit = Literal("LS")
    \/ row.quantity = Literal("1")
    \/ row.quantity = Literal("[qty]")

IsRollUp(cell, sh, r) ==
    /\ IsSumFormula(cell)
    /\ RefsOf(cell) = {Ref("J", c) : c \in ChildRowsOf(sh, r)}

(* C12 - for every row with children whose unit is "LS", or whose quantity *)
(* is 1, or whose quantity is "[qty]", updateActivityRowFormulas takes the  *)
(* lump-sum mode: quantity 1, unit "LS", rate blank, cost a SUM over the    *)
(* cost cells of its immediate children.                                    *)
C12_LumpSumMode ==
    Recomputed =>
        \A r \in DataRowsOf(op.mid) :
            (HasChildRow(op.mid, r) /\ LooksLumpSum(op.mid[r])) =>
                /\ sheet[r].quantity = Literal("1")
                /\ sheet[r].unit = Literal("LS")
                /\ sheet[r].rate = Blank
                /\ IsRollUp(sheet[r].cost, op.mid, r)

\* The script with the preserve branch found a parent with quantity 1 and a
\* unit of measure, and on another occasion a parent marked "LS" with
\* another quantity: here the first.
C12_Witness ==
    /\ Recomputed
    /\ op.name = "insertChildren"
    /\ \E r \in DataRowsOf(op.mid) :
          /\ HasChildRow(op.mid, r)
          /\ op.mid[r].quantity = Literal("1")
          /\ op.mid[r].unit = Literal("m")
          /\ sheet[r].unit = Literal("LS")
          /\ ChildRowsOf(op.mid, r) # {}

(* C13 - for every row with children whose unit is not "LS" and whose      *)
(* quantity is neither 1 nor "[qty]", updateActivityRowFormulas, in every   *)
(* script that defines it, keeps the quantity and the unit of the row, sets *)
(* its rate to a SUM over the cost cells of its immediate children and its  *)
(* cost to the quantity-times-rate formula of its own row: exactly one of   *)
(* rate and cost is a roll-up.                                              *)
C13_MeasuredMode ==
    Recomputed =>
        \A r \in DataRowsOf(op.mid) :
            (HasChildRow(op.mid, r) /\ ~LooksLumpSum(op.mid[r])) =>
                /\ sheet[r].quantity = op.mid[r].quantity
                /\ sheet[r].unit = op.mid[r].unit
                /\ IsRollUp(sheet[r].rate, op.mid, r)
                /\ IsProductFormula(sheet[r].cost, r)
                /\ ~IsSumFormula(sheet[r].cost)

-----------------------------------------------------------------------------
(* Vocabulary of the claims about reindexItemCodes on pre-order lists *)

AllButLast(segments) == SubSeq(segments, 1, Len(segments) - 1)

\* The list is the pre-order walk of a forest of distinct codes: every
\* nested code extends, by one segment, the code of the nearest earlier row
\* of smaller depth.  The numbering may have gaps.
IsPreOrder(l) ==
    /\ \A i \in 1..Len(l) :
          Depth(l[i]) > 0 =>
              /\ ParentPos(l, i) > 0
              /\ AllButLast(Segments(l[i])) = Segments(l[ParentPos(l, i)])
    /\ \A i, j \in 1..Len(l) : i # j => l[i] # l[j]

\* The rows of the depth of row i between its parent and itself.
EarlierSiblings(l, i) ==
    {j \in (ParentPos(l, i) + 1)..(i - 1) : Depth(l[j]) = Depth(l[i])}

(* C14 - for a pre-order list reindexItemCodes numbers the siblings without *)
(* gaps at every level: the final segment of an output row of depth d > 0   *)
(* is 1 plus the number of earlier rows of depth d that lie after the most  *)
(* recent earlier row of smaller depth, so the children of every node are   *)
(* numbered 1, 2, ..., k in order and the count restarts under each parent. *)
C14_GapFreeNumbering ==
    (Reindexed /\ IsPreOrder(input.arg)) =>
        /\ Len(ret.value) = Len(input.arg)
        /\ \A i \in 1..Len(input.arg) :
              Depth(input.arg[i]) > 0 =>
                  LastSegment(ret.value[i]) =
                      NumberToString(1 + Cardinality(EarlierSiblings(input.arg, i)))
        /\ IsContiguous(ret.value)

\* A list with a gap in which two parents each have a child: the second
\* child is numbered 1 again, and the numbering changed.
C14_Witness ==
    /\ Reindexed
    /\ IsPreOrder(input.arg)
    /\ ret.value # input.arg
    /\ \E i, j \in 1..Len(input.arg) :
          /\ i < j
          /\ Depth(input.arg[i]) = 2 /\ Depth(input.arg[j]) = 2
          /\ ParentPos(input.arg, i) # ParentPos(input.arg, j)
          /\ LastSegment(ret.value[i]) = <<"1">>
          /\ LastSegment(ret.value[j]) = <<"1">>

(* C15 - for a pre-order list reindexItemCodes preserves the tree shape:    *)
(* for all positions i < j the j-th output is an immediate child (a         *)
(* descendant) of the i-th output exactly when the j-th input is an         *)
(* immediate child (a descendant) of the i-th input.                        *)
C15_TreeShapePreserved ==
    (Reindexed /\ IsPreOrder(input.arg)) =>
        \A i, j \in 1..Len(input.arg) :
            i < j =>
                /\ IsImmediateChild(ret.value[j], ret.value[i])
                      <=> IsImmediateChild(input.arg[j], input.arg[i])
                /\ IsDescendant(ret.value[j], ret.value[i])
                      <=> IsDescendant(input.arg[j], input.arg[i])

\* A renumbered table of full length with a grandchild and a row that is
\* no descendant of the row before it.
C15_Witness ==
    /\ Reindexed
    /\ ~input.fed
    /\ IsPreOrder(input.arg)
    /\ Len(input.arg) = MaxTableLen - 1
    /\ ret.value # input.arg
    /\ \E i, j \in 1..Len(input.arg) :
          i < j /\ IsDescendant(input.arg[j], input.arg[i])
                /\ ~IsImmediateChild(input.arg[j], input.arg[i])
    /\ \E i \in 1..(Len(input.arg) - 1) :
          ~IsDescendant(input.arg[i + 1], input.arg[i])

-----------------------------------------------------------------------------
(* Claims about the scripts as a whole *)

\* The multi-insert script found in M2 a count that asks for no children:
\* a number below 1, nothing, or a text that is no number.
NoChildrenAsked ==
    /\ op.name = "insertChildren"
    /\ \/ op.count = "number" /\ op.numChildren < 1
       \/ op.count = "blank"
       \/ op.count = "text"

(* C16 - when the requested child count is less than 1, missing or         *)
(* unparsable, insertMultipleChildItemRows is a no-op and not an error: it  *)
(* inserts no row, writes no code and no placeholder, and raises nothing.   *)
C16_NoChildrenIsNoOp ==
    NoChildrenAsked =>
        /\ ~op.threw
        /\ op.mid = pre
        /\ Len(sheet) = Len(pre)
        /\ \A r \in 1..Len(pre) : sheet[r].code = pre[r].code

\* The cost of the row right below the data range of sh is a SUM formula that
\* refers to the cost cell of every depth-0 row of the data range exactly
\* once and to nothing else, not even to a row that is gone.
GrandTotalSumsRoots(sh) ==
    LET totalRow == RangeEdgeDown(sh, HeaderRow)
        rootRows == {r \in DataRowsOf(sh) : Depth(CodeAt(sh, r)) = 0}
    IN  /\ IsSumFormula(sh[totalRow].cost)
        /\ \A k \in 1..Len(sh[totalRow].cost) :
              sh[totalRow].cost[k] # Text("#REF!")
        /\ RefsOf(sh[totalRow].cost) = {Ref("J", r) : r \in rootRows}
        /\ \A r \in rootRows : RefCount(sh[totalRow].cost, Ref("J", r)) = 1

(* C17 - after updateActivityRowFormulas has run on a table with data rows, *)
(* the grand-total row, the row right below the data range, has as cost a   *)
(* SUM formula that refers to the cost cell of every depth-0 row of the     *)
(* data range exactly once and to no row of greater depth.                  *)
C17_GrandTotal ==
    (Recomputed /\ DataRowsOf(sheet) # {}) => GrandTotalSumsRoots(sheet)

\* The first new code with its final segment increased by k - 1.
KthCode(first, k) ==
    Join(Append(AllButLast(Segments(first)),
                NumberToString(DecimalValue(LastSegment(first)) + k - 1)))

ChildrenInserted ==
    /\ op.name = "insertChildren"
    /\ op.count = "number"
    /\ op.numChildren >= 1
    /\ ~op.threw

(* C18 - for a request of n >= 1 children the multi-insert script writes    *)
(* exactly n codes, all one level below the parent and prefixed by the      *)
(* parent's code and "-", the k-th being the first new code with its final  *)
(* segment increased by k - 1, into one block of n new rows that starts at  *)
(* the planned insertion row, in increasing order; the other rows keep      *)
(* their codes.                                                             *)
C18_ChildBlock ==
    ChildrenInserted =>
        LET n     == op.numChildren
            at    == op.plan.value.newChildInsertionRow
            first == op.plan.value.newChildItemCode
        IN  /\ Len(op.mid) = Len(pre) + n
            /\ \A k \in 1..n :
                  /\ CodeAt(op.mid, at + k - 1) = KthCode(first, k)
                  /\ IsImmediateChild(CodeAt(op.mid, at + k - 1), ParentCode)
            /\ \A r \in 1..(at - 1) : CodeAt(op.mid, r) = CodeAt(pre, r)
            /\ \A r \in at..Len(pre) : CodeAt(op.mid, r + n) = CodeAt(pre, r)
            /\ \A r \in 1..Len(op.mid) : sheet[r].code = op.mid[r].code

\* Two children were appended after an existing child that has a child of
\* its own.
C18_Witness ==
    /\ ChildrenInserted
    /\ op.numChildren = MaxChildren
    /\ ImmediateChildRows # {}
    /\ Last(DescendantRows) > Last(ImmediateChildRows)
    /\ LastSegment(CodeAt(sheet, op.plan.value.newChildInsertionRow + 1)) = <<"3">>

(* C19 - updateActivityRowFormulas never raises an error, whatever the     *)
(* table holds, and after it no row of the data range has a blank quantity: *)
(* blank values are replaced by placeholders, for leaf rows and for rows    *)
(* with children alike.                                                     *)
C19_NoBlankQuantity ==
    op.updated =>
        /\ ~op.threw
        /\ \A r \in DataRowsOf(sheet) : sheet[r].quantity # Blank

\* A script that only reads the table ran on a table without data rows:
\* the reset of the quantities, or the formula update on its own (the
\* multi-insert script with no children asked for).
ReadEmptyTable ==
    /\ DataRowsOf(pre) = {}
    /\ \/ op.name = "resetQuantities"
       \/ op.name = "insertChildren" /\ op.count \in {"number", "blank"}
                                     /\ op.numChildren < 1

(* C20 - on an empty table every operation that reads the table            *)
(* (updateActivityRowFormulas, the reset of the quantities, the code        *)
(* refresh) ends early without a fatal error and without writing a cell:    *)
(* the grid is unchanged.                                                   *)
C20_EmptyTableShortCircuits ==
    ReadEmptyTable => (~op.threw /\ sheet = pre)

-----------------------------------------------------------------------------
(* Claims about what a script writes *)

\* The worksheets a and b have the same rows but for the cells of the data
\* range of a (and, with total, the cost of the row right below it).
SameOutsideDataRange(a, b, total) ==
    /\ Len(a) = Len(b)
    /\ \A r \in 1..Len(a) :
          r \notin DataRowsOf(a) =>
              IF total /\ r = RangeEdgeDown(a, HeaderRow)
              THEN [b[r] EXCEPT !.cost = a[r].cost] = a[r]
              ELSE b[r] = a[r]

\* The delete script passed its bounds test, deleted and refreshed the codes.
CodesRefreshed == op.name = "deleteSelected" /\ op.updated

\* The worksheet the code refresh of the delete script found.
AfterDeletion == DeleteRows(pre, op.topRow, op.bottomRow)

(* C21 - each operation writes only the columns it owns:                   *)
(* refreshActivityItemCodes changes only the code column of the data range; *)
(* updateActivityRowFormulas changes only quantity, unit, rate and cost of  *)
(* the data range and the cost of the grand-total row, never a code or a    *)
(* name; the reset of the quantities changes only the quantity column, so   *)
(* the rate that the transform clears in memory for a row with children is  *)
(* not written to the worksheet.                                            *)
C21_OwnedColumns ==
    /\ CodesRefreshed =>
          /\ SameOutsideDataRange(AfterDeletion, op.mid, FALSE)
          /\ \A r \in DataRowsOf(AfterDeletion) :
                op.mid[r] = [AfterDeletion[r] EXCEPT !.code = op.mid[r].code]
    /\ Recomputed =>
          /\ SameOutsideDataRange(op.mid, sheet, TRUE)
          /\ \A r \in DataRowsOf(op.mid) :
                /\ sheet[r].code = op.mid[r].code
                /\ sheet[r].name = op.mid[r].name
    /\ (op.name = "resetQuantities" /\ ~op.threw) =>
          /\ SameOutsideDataRange(pre, sheet, FALSE)
          /\ \A r \in DataRowsOf(pre) :
                sheet[r] = [pre[r] EXCEPT !.quantity = sheet[r].quantity]

\* The reset ran on a table with a parent that holds a rate and a leaf that
\* holds a quantity: the rate is still there, the quantity is "[qty]".
C21_Witness ==
    /\ op.name = "resetQuantities"
    /\ ~op.threw
    /\ \E r \in DataRowsOf(pre) :
          /\ HasChildRow(pre, r)
          /\ pre[r].rate = Literal("7")
          /\ sheet[r].rate = Literal("7")
    /\ \E r \in DataRowsOf(pre) :
          /\ ~HasChildRow(pre, r)
          /\ pre[r].quantity = Literal("5")
          /\ sheet[r].quantity = Literal("[qty]")

\* The codes of the data range of sh, top to bottom.
DataCodes(sh) ==
    [i \in 1..Cardinality(DataRowsOf(sh)) |-> CodeAt(sh, HeaderRow + i)]

\* The delete script ran to its end.
DeletedAndReindexed == op.name = "deleteSelected" /\ ~op.threw

C23_InsertOutOfBoundsFails ==
    (/\ op.name = "insertChildren"
     /\ op.count = "number"
     /\ op.numChildren >= 1
     /\ op.topRow \notin DataRowsOf(pre))
    => (op.threw /\ sheet = pre)

-----------------------------------------------------------------------------
(* Claims about the validity of the table *)

\* A valid list of codes: a pre-order walk of a forest of distinct codes,
\* numbered without gaps, that reindexItemCodes returns unchanged.
IsValidCodeList(l) ==
    /\ IsPreOrder(l)
    /\ IsContiguous(l)
    /\ reindexItemCodes(l) = l

\* The multi-insert script was asked for n >= 1 children under a data row.
InsertedUnderDataRow ==
    /\ op.name = "insertChildren"
    /\ op.count = "number"
    /\ op.numChildren >= 1
    /\ op.topRow \in DataRowsOf(pre)

(* C24 - insertion preserves contiguity: if the table is a valid pre-order  *)
(* list with contiguous codes (reindexItemCodes returns its code column     *)
(* unchanged), then inserting n >= 1 children under any data row succeeds   *)
(* and leaves a valid pre-order list with contiguous codes in which every   *)
(* row that was there keeps its code, in the same order.                    *)
C24_InsertKeepsContiguity ==
    (InsertedUnderDataRow /\ IsValidCodeList(DataCodes(pre))) =>
        /\ ~op.threw
        /\ IsValidCodeList(DataCodes(sheet))
        /\ Len(DataCodes(sheet)) = Len(DataCodes(pre)) + op.numChildren
        /\ LET at == op.plan.value.newChildInsertionRow
           IN  /\ \A r \in DataRowsOf(pre) :
                     r < at => CodeAt(sheet, r) = CodeAt(pre, r)
               /\ \A r \in DataRowsOf(pre) :
                     r >= at => CodeAt(sheet, r + op.numChildren) = CodeAt(pre, r)

\* Children were added to a parent whose only child has a child, and rows
\* of the table lie below the new block.
C24_Witness ==
    /\ InsertedUnderDataRow
    /\ IsValidCodeList(DataCodes(pre))
    /\ ~op.threw
    /\ ImmediateChildRows # {}
    /\ Last(DescendantRows) > Last(ImmediateChildRows)
    /\ \E r \in DataRowsOf(pre) : r >= op.plan.value.newChildInsertionRow
    /\ IsValidCodeList(DataCodes(sheet))

\* No two rows of the worksheet carry the same (non-empty) code.
CodesDistinct(sh) ==
    \A r, q \in 1..Len(sh) :
        (r # q /\ CodeAt(sh, r) # <<>>) => CodeAt(sh, r) # CodeAt(sh, q)

(* C25 (as claimed) - starting from a table whose codes are pairwise       *)
(* distinct, the multi-insert script never produces a duplicate code: the n *)
(* new codes are pairwise distinct and differ from every code already in    *)
(* the table, whatever the order and the numbering gaps of the existing     *)
(* siblings.                                                                *)
C25_Original ==
    (ChildrenInserted /\ CodesDistinct(pre)) => CodesDistinct(sheet)

\* Under every parent the rows one level down carry increasing numbers, top
\* to bottom (gaps allowed).
SiblingsIncreasing(l) ==
    \A i, j \in 1..Len(l) :
        (/\ i < j
         /\ Depth(l[i]) > 0
         /\ Depth(l[j]) = Depth(l[i])
         /\ ParentPos(l, i) = ParentPos(l, j))
        => /\ IsIntegerText(LastSegment(l[i]))
           /\ IsIntegerText(LastSegment(l[j]))
           /\ DecimalValue(LastSegment(l[i])) < DecimalValue(LastSegment(l[j]))

(* C25 (amended) - starting from a pre-order table of pairwise distinct     *)
(* codes in which the siblings under every parent appear in increasing      *)
(* order of their final number (with or without gaps), inserting n >= 1     *)
(* children under a data row never produces a duplicate code: the n new     *)
(* codes are pairwise distinct and differ from every code already in the    *)
(* table.                                                                   *)
C25_NoDuplicateCodeInOrder ==
    (/\ ChildrenInserted
     /\ op.topRow \in DataRowsOf(pre)
     /\ CodesDistinct(pre)
     /\ IsPreOrder(DataCodes(pre))
     /\ SiblingsIncreasing(DataCodes(pre)))
    => /\ CodesDistinct(sheet)
       /\ \A k \in 1..op.numChildren :
             \A r \in 1..Len(pre) :
                 CodeAt(pre, r) # KthCode(op.plan.value.newChildItemCode, k)

\* Two children were added below siblings numbered 1 and 3: they are 4
\* and 5.
C25_Witness ==
    /\ ChildrenInserted
    /\ op.topRow \in DataRowsOf(pre)
    /\ CodesDistinct(pre)
    /\ IsPreOrder(DataCodes(pre))
    /\ SiblingsIncreasing(DataCodes(pre))
    /\ ~IsContiguous(DataCodes(pre))
    /\ op.numChildren = MaxChildren
    /\ LastSegment(op.plan.value.newChildItemCode) = <<"4">>
    /\ LastSegment(CodeAt(sheet, op.plan.value.newChildInsertionRow + 1)) = <<"5">>

\* A non-empty root label followed by positive-integer segments.
IsWellFormedCode(code) ==
    /\ RootSegment(code) # <<>>
    /\ RootSegment(code) # <<"u", "n", "d", "e", "f", "i", "n", "e", "d">>
    /\ \A k \in 2..Len(Segments(code)) :
          /\ IsNumeral(Segments(code)[k])
          /\ DecimalValue(Segments(code)[k]) >= 1

\* The data range of sh is a valid table: well-formed codes, every nested
\* row below its parent, siblings numbered 1, 2, ... without gaps.
IsValidTable(sh) ==
    /\ \A r \in DataRowsOf(sh) : IsWellFormedCode(CodeAt(sh, r))
    /\ IsValidCodeList(DataCodes(sh))

\* The last script was an insertion of children under a data row or a
\* deletion of data rows, and it succeeded.
StructuralStep ==
    /\ ~op.threw
    /\ \/ InsertedUnderDataRow
       \/ op.name = "deleteSelected"

(* C26 - validity of the table is an invariant of the operations: from a   *)
(* valid table (well-formed codes, every nested row's parent on an earlier  *)
(* row, siblings numbered without gaps) a successful insertion of children  *)
(* under a data row or a successful deletion of data rows leaves a valid    *)
(* table; no code gets an empty segment or the text "undefined" and no row  *)
(* is left without its parent.                                              *)
C26_ValidityInvariant ==
    (StructuralStep /\ IsValidTable(pre)) => IsValidTable(sheet)

-----------------------------------------------------------------------------
(* Claims about the tree the formulas are built on *)

\* The test the roll-up formulas pick the children of row i with, applied
\* to every row of the list.
HasChildByScan(l, i) ==
    \E j \in 1..Len(l) :
        /\ StartsWith(l[j], l[i] \o <<Hyphen>>)
        /\ hierarchyLevelOf(l[j]) = hierarchyLevelOf(l[i]) + 1

(* C27 - on every pre-order list the tree inference, which looks at the     *)
(* next row only, agrees with a scan of the whole list: row i is marked     *)
(* hasChild if and only if some row of the list is its immediate child by   *)
(* the prefix-and-level test the roll-up formulas use, so the rows treated  *)
(* as parents are exactly the rows with a non-empty set of children.        *)
C27_AdjacencyAgreesWithScan ==
    (input.fn = "markHasChild" /\ ret # NoRet /\ IsPreOrder(input.arg)) =>
        \A i \in 1..Len(input.arg) :
            ret.value[i] <=> HasChildByScan(input.arg, i)

\* A parent with a grandchild: the first two rows are marked, and the
\* child of the first row is found by the scan two rows away as well.
C27_Witness ==
    /\ input.fn = "markHasChild" /\ ret # NoRet
    /\ IsPreOrder(input.arg)
    /\ Len(input.arg) = MaxListLen
    /\ ret.value[1]
    /\ \E i \in 2..Len(input.arg) : ret.value[i]
    /\ \E i \in 1..Len(input.arg) : ~HasChildByScan(input.arg, i)

\* The rate and cost cells of the data rows and of the grand-total row that
\* hold a SUM formula, as <<row, column>>.
FormulaCell(sh, x) == IF x[2] = "rate" THEN sh[x[1]].rate ELSE sh[x[1]].cost

SumCells(sh) ==
    {x \in (DataRowsOf(sh) \cup {RangeEdgeDown(sh, HeaderRow)}) \X {"rate", "cost"} :
        IsSumFormula(FormulaCell(sh, x))}

\* The SUM formulas that refer to the cost cell of row r.
Referrers(sh, r) ==
    {x \in SumCells(sh) : Ref("J", r) \in RefsOf(FormulaCell(sh, x))}

\* The row below the data range of sh is the grand-total row.
ClosedByTotal(sh) == CodeAt(sh, RangeEdgeDown(sh, HeaderRow)) = TotalLabel

\* updateActivityRowFormulas ran on a valid table with data rows, closed by
\* the grand-total row.
RecomputedValidTable ==
    /\ Recomputed
    /\ DataRowsOf(op.mid) # {}
    /\ IsValidTable(op.mid)
    /\ ClosedByTotal(op.mid)

(* C28 - after updateActivityRowFormulas on a valid pre-order table every   *)
(* cost cell is rolled up exactly once: the cost cell of a nested row is    *)
(* referred to by exactly one SUM formula, in the rate or the cost of its   *)
(* immediate parent; the cost cell of a depth-0 row by the grand total      *)
(* only; every SUM formula refers to at least one row; and no SUM formula   *)
(* of a row refers to the cost cell of that row or of a row above it in the *)
(* tree.                                                                    *)
C28_RolledUpOnce ==
    RecomputedValidTable =>
        /\ \A r \in DataRowsOf(sheet) :
              /\ Cardinality(Referrers(sheet, r)) = 1
              /\ \A x \in Referrers(sheet, r) :
                    /\ RefCount(FormulaCell(sheet, x), Ref("J", r)) = 1
                    /\ IF Depth(CodeAt(sheet, r)) = 0
                       THEN x = <<RangeEdgeDown(sheet, HeaderRow), "cost">>
                       ELSE /\ x[1] \in DataRowsOf(sheet)
                            /\ IsImmediateChild(CodeAt(sheet, r), CodeAt(sheet, x[1]))
        /\ \A x \in SumCells(sheet) :
              /\ RefsOf(FormulaCell(sheet, x)) # {}
              /\ \A ref \in RefsOf(FormulaCell(sheet, x)) :
                    /\ ref.row # x[1]
                    /\ ~IsDescendant(CodeAt(sheet, x[1]), CodeAt(sheet, ref.row))

\* The copy of updateActivityRowFormulas the last script ran, run once more
\* on the worksheet it left.
RecomputedAgain ==
    CASE op.name = "insertChildren" -> updateActivityRowFormulas(sheet)
      [] op.name = "insertOneChild" -> updateActivityRowFormulasOfInsertOne(sheet)
      [] op.name = "deleteSelected" -> updateActivityRowFormulasOfDelete(sheet)
      [] OTHER -> Done(sheet)

(* C29 - updateActivityRowFormulas is idempotent on the worksheet: run a    *)
(* second time right after the first, it leaves the quantity, unit, rate    *)
(* and cost of every row and the grand total as the first run left them; no *)
(* row flips between the measured mode and the lump-sum mode.               *)
C29_RecomputeIdempotent ==
    Recomputed => (~RecomputedAgain.threw /\ RecomputedAgain.sheet = sheet)

\* The first run changed the table, which has a parent in measured mode and
\* a parent in lump-sum mode.
C29_Witness ==
    /\ Recomputed
    /\ op.name = "insertChildren"
    /\ sheet # op.mid
    /\ \E r \in DataRowsOf(sheet) :
          HasChildRow(sheet, r) /\ IsRollUp(sheet[r].rate, sheet, r)
    /\ \E r \in DataRowsOf(sheet) :
          HasChildRow(sheet, r) /\ IsRollUp(sheet[r].cost, sheet, r)
    /\ RecomputedAgain.sheet = sheet

(* C30 - after a deletion with reindexing no row without children carries a *)
(* roll-up: a row that was a parent in measured mode (rate = SUM of its     *)
(* children's costs) and lost all its children does not keep that SUM as    *)
(* its rate once the formulas are updated; the rate of every leaf is a      *)
(* literal or the "[rate]" placeholder.                                     *)
C30_NoStaleRollUp ==
    (DeletedAndReindexed /\ ClosedByTotal(pre)) =>
        \A r \in DataRowsOf(sheet) :
            ~HasChildRow(sheet, r) =>
                /\ ~IsSumFormula(sheet[r].rate)
                /\ Len(sheet[r].rate) = 1
                /\ sheet[r].rate[1].kind = "text"

====
